---- MODULE Spec2Model ----
(***************************************************************************)
(* Model of rush-console's line reader (src/rush-console/src/reader.rs):   *)
(* the Console struct, Console::read's loop, Console::handle_event and the *)
(* helpers they call.                                                      *)
(*                                                                         *)
(* line_buffer is a Rust String, i.e. a sequence of UTF-8 bytes, and       *)
(* cursor_coord is a usize used as a BYTE index by String::insert,         *)
(* String::remove, String::len and the slice &line_buffer[cursor_coord..]. *)
(* A byte is modelled as <<ch, i>>: the i-th byte of the encoding of       *)
(* character ch; i = 1 is the lead byte, i > 1 a continuation byte.        *)
(*                                                                         *)
(* The terminal is the environment: every terminal primitive (raw-mode     *)
(* toggle, queued command, flush, event read, size and position query)     *)
(* either succeeds or returns an error, and the values terminal::size()    *)
(* and cursor::position() report are inputs.                               *)
(*                                                                         *)
(* typed, pure, reads, flushes and io_failed are history variables: they   *)
(* record what has been fed to the program and what it has done, and are   *)
(* read by no operation of it.                                             *)
(*                                                                         *)
(* There are two specifications.  Spec leaves the terminal open: what it   *)
(* reports is any value.  TermSpec follows one read on a terminal of       *)
(* TermWidth x TermHeight cells which starts blank with the cursor in its  *)
(* top left corner, whose output primitives do not fail (the event read    *)
(* may), and which gives the commands their usual (ECMA-48 / xterm)        *)
(* meaning: printing in the last column leaves the cursor there with a     *)
(* wrap pending, a line feed on the last row scrolls, cursor movement      *)
(* commands stop at the edges and never scroll, save / restore position    *)
(* are absolute screen coordinates.                                        *)
(***************************************************************************)
EXTENDS Integers, Sequences, FiniteSets, TLC

\* Bounds of the model (the program itself has no such limits).
MaxBytes == 3       \* longest line_buffer, in bytes
MaxWidth == 2       \* widest terminal, in columns
MaxHeight == 1      \* tallest terminal, in rows
TermWidth == 2      \* columns of the terminal TermSpec follows
TermHeight == 3     \* rows of the terminal TermSpec follows
TermReads == 1      \* calls of Console::read TermSpec follows
MaxFailPoint == 8   \* a failure may hit the 1st .. MaxFailPoint-th primitive of a step
MaxReads == 2       \* the caller invokes Console::read at most this many times

VARIABLES
    line_buffer,    \* Console.line_buffer: sequence of bytes
    cursor_coord,   \* Console.cursor_coord: byte index into line_buffer
    raw_mode,       \* whether the terminal is in raw mode
    queue,          \* commands queued on stdout and not yet flushed
    term,           \* the terminal: cursor, saved cursor, cells
    pc,             \* where the caller / Console::read stands
    event,          \* the last event returned by crossterm's read()
    action,         \* the last ReplAction returned by handle_event
    line,           \* the line returned by the last Ok return of Console::read
    typed,          \* characters inserted since the current read began
    pure,           \* the current read began with an empty buffer and has seen only inserts
    flushes,        \* flushes of stdout since the current loop iteration began
    io_failed,      \* a terminal primitive has returned an error in the current read
    reads           \* how many times the caller has invoked Console::read

vars == <<line_buffer, cursor_coord, raw_mode, queue, term, pc, event, action, line,
          typed, pure, flushes, io_failed, reads>>

----------------------------------------------------------------------------
\* Characters and their UTF-8 encoding

\* The characters a key event can carry: two one-byte characters (the ones
\* Ctrl-C and Ctrl-L are bound to) and one two-byte character.
Chars == {"c", "l", "eacute"}

len_utf8(ch) == IF ch = "eacute" THEN 2 ELSE 1

encode_utf8(ch) == [i \in 1..len_utf8(ch) |-> <<ch, i>>]

\* str::is_char_boundary: index 0, index len, or the byte at index is no continuation byte
is_char_boundary(s, idx) ==
    \/ idx = 0
    \/ idx = Len(s)
    \/ idx > 0 /\ idx < Len(s) /\ s[idx + 1][2] = 1

\* str::chars: the characters of a byte string, in order
RECURSIVE chars(_)
chars(s) ==
    IF s = <<>> THEN <<>>
    ELSE IF Head(s)[2] = 1 THEN <<Head(s)[1]>> \o chars(Tail(s))
    ELSE chars(Tail(s))

\* String::insert on a char boundary
string_insert(s, idx, ch) == SubSeq(s, 1, idx) \o encode_utf8(ch) \o SubSeq(s, idx + 1, Len(s))

\* String::remove on a char boundary below len: removes the whole character starting at idx
string_remove(s, idx) == SubSeq(s, 1, idx) \o SubSeq(s, idx + len_utf8(s[idx + 1][1]) + 1, Len(s))

----------------------------------------------------------------------------
\* Terminal commands (crossterm Command values) as uniform records

Cmd(name, x, y, text) == [cmd |-> name, x |-> x, y |-> y, text |-> text]

SavePosition == Cmd("SavePosition", 0, 0, <<>>)
RestorePosition == Cmd("RestorePosition", 0, 0, <<>>)
MoveToNextLine(k) == Cmd("MoveToNextLine", k, 0, <<>>)
MoveToPreviousLine(k) == Cmd("MoveToPreviousLine", k, 0, <<>>)
MoveRight(k) == Cmd("MoveRight", k, 0, <<>>)
MoveLeft(k) == Cmd("MoveLeft", k, 0, <<>>)
MoveTo(x, y) == Cmd("MoveTo", x, y, <<>>)
ClearAll == Cmd("Clear(All)", 0, 0, <<>>)
ClearUntilNewLine == Cmd("Clear(UntilNewLine)", 0, 0, <<>>)
PrintText(text) == Cmd("Print", 0, 0, text)

\* generate_prompt(context): "\r\n", then the visible prompt as one cell of text
generate_prompt == << <<"\r", 1>>, <<"\n", 1>>, <<"prompt", 1>> >>

\* The " " print_buffer_section appends in deletion mode
Space == << <<" ", 1>> >>

----------------------------------------------------------------------------
\* The terminal the flushed commands act on.  x, y: cursor column and row
\* (from 0); pend: a wrap is pending (a character was printed in the last
\* column); sx, sy, spend: the saved cursor; cells: the rows of the screen,
\* top first.  ox, oy record where the cell following the last printed prompt
\* is on the screen (oy follows the scrolling, down to -1 once that cell has
\* left the screen).  followed is FALSE when the terminal is left open.

Blank == " "

BlankRow == [i \in 1..TermWidth |-> Blank]

InitTerm ==
    [followed |-> TRUE, x |-> 0, y |-> 0, pend |-> FALSE, sx |-> 0, sy |-> 0,
     spend |-> FALSE, ox |-> 0, oy |-> 0, cells |-> [r \in 1..TermHeight |-> BlankRow]]

NoTerm == [InitTerm EXCEPT !.followed = FALSE]

Max(a, b) == IF a >= b THEN a ELSE b

Min(a, b) == IF a <= b THEN a ELSE b

\* The screen moves up one row; the bottom row is blank
scroll_up(t) ==
    [t EXCEPT !.cells = Tail(@) \o <<BlankRow>>, !.oy = Max(@ - 1, -1)]

\* Line feed: down one row, scrolling on the last row
line_feed(t) ==
    IF t.y = TermHeight - 1 THEN scroll_up(t) ELSE [t EXCEPT !.y = @ + 1]

\* A pending wrap is taken: the cursor goes to the start of the next row
take_wrap(t) ==
    IF t.pend THEN line_feed([t EXCEPT !.x = 0, !.pend = FALSE]) ELSE t

\* A character is written under the cursor, which moves right unless it is
\* in the last column
write_cell(t, cell) ==
    [t EXCEPT !.cells[t.y + 1][t.x + 1] = cell,
              !.x = IF t.x = TermWidth - 1 THEN @ ELSE @ + 1,
              !.pend = (t.x = TermWidth - 1)]

\* One printable character
put_cell(t, cell) == write_cell(take_wrap(t), cell)

\* The cell after the prompt is where the cursor is
mark_origin(t) == [t EXCEPT !.ox = t.x, !.oy = t.y]

\* One byte of a printed text; a character takes one cell, at its first byte
print_byte(t, b) ==
    IF b[2] # 1 THEN t
    ELSE IF b[1] = "\r" THEN [t EXCEPT !.x = 0, !.pend = FALSE]
    ELSE IF b[1] = "\n" THEN line_feed([t EXCEPT !.pend = FALSE])
    ELSE IF b[1] = "prompt" THEN mark_origin(put_cell(t, b[1]))
    ELSE put_cell(t, b[1])

RECURSIVE print_text(_, _)
\* Print(text), byte by byte
print_text(t, text) ==
    IF text = <<>> THEN t ELSE print_text(print_byte(t, Head(text)), Tail(text))

\* The effect of one command on the terminal
apply_cmd(t, c) ==
    CASE c.cmd = "Print" -> print_text(t, c.text)
      [] c.cmd = "SavePosition" -> [t EXCEPT !.sx = t.x, !.sy = t.y, !.spend = t.pend]
      [] c.cmd = "RestorePosition" -> [t EXCEPT !.x = t.sx, !.y = t.sy, !.pend = t.spend]
      [] c.cmd = "MoveToNextLine" ->
            [t EXCEPT !.x = 0, !.y = Min(t.y + c.x, TermHeight - 1), !.pend = FALSE]
      [] c.cmd = "MoveToPreviousLine" ->
            [t EXCEPT !.x = 0, !.y = Max(t.y - c.x, 0), !.pend = FALSE]
      [] c.cmd = "MoveRight" ->
            [t EXCEPT !.x = Min(t.x + c.x, TermWidth - 1), !.pend = FALSE]
      [] c.cmd = "MoveLeft" ->
            [t EXCEPT !.x = Max(t.x - c.x, 0), !.pend = FALSE]
      [] c.cmd = "MoveTo" ->
            [t EXCEPT !.x = Min(c.x, TermWidth - 1), !.y = Min(c.y, TermHeight - 1),
                      !.pend = FALSE]
      [] c.cmd = "Clear(All)" -> [t EXCEPT !.cells = [r \in 1..TermHeight |-> BlankRow]]
      [] c.cmd = "Clear(UntilNewLine)" ->
            [t EXCEPT !.cells[t.y + 1] =
                 [i \in 1..TermWidth |-> IF i >= t.x + 1 THEN Blank ELSE @[i]]]

RECURSIVE apply_cmds(_, _)
apply_cmds(t, cmds) ==
    IF cmds = <<>> THEN t ELSE apply_cmds(apply_cmd(t, Head(cmds)), Tail(cmds))

----------------------------------------------------------------------------
\* Events (crossterm::event::Event)

Modifiers == {"NONE", "SHIFT", "CONTROL", "ALT"}

KeyEvent(m, code, ch) == [kind |-> "Key", modifiers |-> m, code |-> code, ch |-> ch]

ResizeEvent == [kind |-> "Resize", modifiers |-> "NONE", code |-> "", ch |-> ""]

NoEvent == [kind |-> "None", modifiers |-> "NONE", code |-> "", ch |-> ""]

Events ==
    {KeyEvent(m, "Char", ch) : m \in Modifiers, ch \in Chars}
    \cup {KeyEvent(m, code, "") : m \in Modifiers,
                                  code \in {"Backspace", "Left", "Right", "Enter", "F1"}}
    \cup {ResizeEvent}

----------------------------------------------------------------------------
\* One step of the program runs on a record st of the Console's fields and
\* the terminal's, plus
\*   status: "ok" while running, "err" once a `?` has propagated an error,
\*           "panic" once a String operation has panicked, "return" / "exit"
\*           once read has returned Ok / called std::process::exit
\*   n:      the number of terminal primitives called so far in this step
\*   failed: one of them has returned an error
\* env holds the environment's choices for the step: failAt (which primitive
\* fails, 0 for none) and what terminal::size() / cursor::position() report.

Env(failAt, x_size, y_size, x_pos) ==
    [failAt |-> failAt, x_size |-> x_size, y_size |-> y_size, x_pos |-> x_pos]

\* A terminal primitive followed by `?`: skipped once the step has stopped,
\* an error if the environment fails it, otherwise its effect ok_st
\* A terminal primitive whose error is dropped instead of propagated
Fallible_error_dropped(st, env, ok_st) ==
    IF st.status # "ok" THEN st
    ELSE IF st.n + 1 = env.failAt THEN [st EXCEPT !.failed = TRUE, !.n = @ + 1]
    ELSE [ok_st EXCEPT !.n = st.n + 1]

Fallible(st, env, ok_st) ==
    IF st.status # "ok" THEN st
    ELSE IF st.n + 1 = env.failAt
         THEN [st EXCEPT !.status = "err", !.failed = TRUE, !.n = @ + 1]
    ELSE [ok_st EXCEPT !.n = st.n + 1]

\* One command of a queue!(..) call
queue_cmd(st, env, cmd) == Fallible(st, env, [st EXCEPT !.queue = Append(@, cmd)])

\* io::Write::flush on stdout: everything queued goes to the terminal
flush(st, env) ==
    Fallible(st, env,
             [st EXCEPT !.term = IF @.followed THEN apply_cmds(@, st.queue) ELSE @,
                        !.queue = <<>>, !.flushes = @ + 1])

terminal_size(st, env) == Fallible(st, env, st)

cursor_position(st, env) == Fallible(st, env, st)

\* enable_raw_mode that leaves the terminal in cooked mode
enable_raw_mode_no_effect(st, env) == Fallible(st, env, st)

enable_raw_mode(st, env) == Fallible(st, env, [st EXCEPT !.raw_mode = TRUE])

disable_raw_mode(st, env) == Fallible(st, env, [st EXCEPT !.raw_mode = FALSE])

panic(st) == [st EXCEPT !.status = "panic"]

----------------------------------------------------------------------------
\* Console's private methods, each on the step record

RECURSIVE queue_cmds(_, _, _)
\* queue!(self.stdout, c1, c2, ..): the commands in order, stopping at the first error
queue_cmds(st, env, cmds) ==
    IF cmds = <<>> THEN st
    ELSE queue_cmds(queue_cmd(st, env, Head(cmds)), env, Tail(cmds))

\* execute! that queues and never flushes
execute_no_flush(st, env, cmds) == queue_cmds(st, env, cmds)

\* execute!(self.stdout, c1, ..): queue the commands, then flush
execute(st, env, cmds) == flush(queue_cmds(st, env, cmds), env)

move_cursor_right(st, env) ==
    LET sized == terminal_size(st, env)
        positioned == cursor_position(sized, env)
    IN IF env.x_pos = env.x_size - 1
       THEN queue_cmd(positioned, env, MoveToNextLine(1))
       ELSE queue_cmd(positioned, env, MoveRight(1))

move_cursor_left(st, env) ==
    LET sized == terminal_size(st, env)
        positioned == cursor_position(sized, env)
    IN IF env.x_pos = 0
       THEN queue_cmds(positioned, env, <<MoveToPreviousLine(1), MoveRight(env.x_size - 1)>>)
       ELSE queue_cmd(positioned, env, MoveLeft(1))

print_buffer_section(st, deletion_mode, env) ==
    LET deletion_char == IF deletion_mode THEN Space ELSE <<>>
    IN IF st.status # "ok" THEN st
       ELSE IF ~is_char_boundary(st.line_buffer, st.cursor_coord) THEN panic(st)
       ELSE queue_cmds(st, env,
                <<SavePosition,
                  PrintText(SubSeq(st.line_buffer, st.cursor_coord + 1, Len(st.line_buffer))),
                  PrintText(deletion_char),
                  RestorePosition>>)

insert_char(st, char, env) ==
    IF st.status # "ok" THEN st
    ELSE IF ~is_char_boundary(st.line_buffer, st.cursor_coord) THEN panic(st)
    ELSE LET inserted == [st EXCEPT !.line_buffer = string_insert(@, st.cursor_coord, char)]
             printed == print_buffer_section(inserted, FALSE, env)
             advanced == IF printed.status = "ok"
                         THEN [printed EXCEPT !.cursor_coord = @ + 1]
                         ELSE printed
         IN move_cursor_right(advanced, env)

backspace_char(st, env) ==
    IF st.status # "ok" THEN st
    ELSE LET moved == [st EXCEPT !.cursor_coord = @ - 1]
         IN IF moved.cursor_coord >= Len(moved.line_buffer)
               \/ ~is_char_boundary(moved.line_buffer, moved.cursor_coord)
            THEN panic(moved)
            ELSE LET removed == [moved EXCEPT !.line_buffer = string_remove(@, moved.cursor_coord)]
                 IN print_buffer_section(move_cursor_left(removed, env), TRUE, env)

RECURSIVE clear_debug_text(_, _, _, _)
\* for line in from..to (a half-open Range<u16>)
clear_debug_text(st, from, to, env) ==
    IF from >= to THEN st
    ELSE LET saved == queue_cmd(st, env, SavePosition)
             sized == terminal_size(saved, env)
             rest == queue_cmds(sized, env,
                         <<MoveTo(0, env.y_size - from), ClearUntilNewLine, RestorePosition>>)
         IN clear_debug_text(rest, from + 1, to, env)

clear_terminal(st, env) == queue_cmds(st, env, <<MoveTo(0, 0), ClearAll>>)

print_prompt(st, env) == queue_cmd(st, env, PrintText(generate_prompt))

\* `return Ok(action)` / the final Ok(ReplAction::Ignore) of handle_event
Returns(st, a) == IF st.status = "ok" THEN [st EXCEPT !.action = a] ELSE st

\* The match arms of handle_event that carry a guard of their own

backspace_arm(st, env) ==
    IF st.cursor_coord # 0 THEN backspace_char(st, env) ELSE st

\* left_arm with `self.cursor_coord -= 1` forgotten
left_arm_no_decrement(st, env) ==
    IF st.cursor_coord # 0 THEN move_cursor_left(st, env) ELSE st

left_arm(st, env) ==
    IF st.cursor_coord # 0
    THEN LET moved == move_cursor_left(st, env)
         IN IF moved.status = "ok" THEN [moved EXCEPT !.cursor_coord = @ - 1] ELSE moved
    ELSE st

right_arm(st, env) ==
    IF st.cursor_coord # Len(st.line_buffer)
    THEN LET moved == move_cursor_right(st, env)
         IN IF moved.status = "ok" THEN [moved EXCEPT !.cursor_coord = @ + 1] ELSE moved
    ELSE st

\* enter_arm without the is_empty guard
enter_arm_no_guard(st) == Returns(st, "Return")

enter_arm(st) ==
    IF st.line_buffer # <<>> THEN Returns(st, "Return") ELSE Returns(st, "Ignore")

\* The pattern of the character arm, taking Alt as well
is_char_key_with_alt(ev) == ev.modifiers \in {"NONE", "SHIFT", "ALT"} /\ ev.code = "Char"

\* (KeyModifiers::NONE | KeyModifiers::SHIFT, KeyCode::Char(c))
is_char_key(ev) == ev.modifiers \in {"NONE", "SHIFT"} /\ ev.code = "Char"

handle_event(st, ev, env) ==
    IF ev.kind # "Key" THEN Returns(st, "Ignore")
    ELSE IF is_char_key(ev)
         THEN Returns(insert_char(st, ev.ch, env), "Ignore")
    ELSE IF ev.modifiers = "NONE" /\ ev.code = "Backspace"
         THEN Returns(backspace_arm(st, env), "Ignore")
    ELSE IF ev.modifiers = "NONE" /\ ev.code = "Left"
         THEN Returns(left_arm(st, env), "Ignore")
    ELSE IF ev.modifiers = "NONE" /\ ev.code = "Right"
         THEN Returns(right_arm(st, env), "Ignore")
    ELSE IF ev.modifiers = "NONE" /\ ev.code = "Enter"
         THEN enter_arm(st)
    ELSE IF ev.modifiers = "CONTROL" /\ ev.code = "Char" /\ ev.ch = "c"
         THEN Returns(st, "Exit")
    ELSE IF ev.modifiers = "CONTROL" /\ ev.code = "Char" /\ ev.ch = "l"
         THEN Returns(st, "Clear")
    ELSE Returns(st, "Ignore")

\* The arms of `match action { .. }` in Console::read

return_arm(st, env) ==
    LET moved == execute(st, env, <<MoveToNextLine(1)>>)
        cooked == disable_raw_mode(moved, env)
        cleared == IF cooked.status = "ok"
                   THEN [cooked EXCEPT !.line_buffer = <<>>, !.cursor_coord = 0]
                   ELSE cooked
        debug == clear_debug_text(cleared, 1, 2, env)
    IN IF debug.status = "ok"
       THEN [debug EXCEPT !.status = "return", !.line = cooked.line_buffer]
       ELSE debug

\* clear_arm with `self.cursor_coord = 0` forgotten
clear_arm_keeps_cursor(st, env) ==
    LET cleared == [st EXCEPT !.line_buffer = <<>>]
    IN print_prompt(clear_terminal(cleared, env), env)

clear_arm(st, env) ==
    LET cleared == [st EXCEPT !.line_buffer = <<>>, !.cursor_coord = 0]
    IN print_prompt(clear_terminal(cleared, env), env)

\* exit_arm with `disable_raw_mode()?` forgotten
exit_arm_keeps_raw_mode(st, env) ==
    LET cleared == clear_terminal(st, env)
        flushed == execute(cleared, env, <<>>)
    IN IF flushed.status = "ok" THEN [flushed EXCEPT !.status = "exit"] ELSE flushed

exit_arm(st, env) ==
    LET cleared == clear_terminal(st, env)
        flushed == execute(cleared, env, <<>>)
        cooked == disable_raw_mode(flushed, env)
    IN IF cooked.status = "ok" THEN [cooked EXCEPT !.status = "exit"] ELSE cooked

match_action(st, env) ==
    IF st.status # "ok" THEN st
    ELSE IF st.action = "Return" THEN return_arm(st, env)
    ELSE IF st.action = "Clear" THEN clear_arm(st, env)
    ELSE IF st.action = "Exit" THEN exit_arm(st, env)
    ELSE st

\* Lines 57-86 of one loop iteration, once read() has delivered ev
loop_body(st, ev, env) == match_action(handle_event(st, ev, env), env)

----------------------------------------------------------------------------
\* The state machine

\* The step record of the current state
Current ==
    [line_buffer |-> line_buffer, cursor_coord |-> cursor_coord, raw_mode |-> raw_mode,
     queue |-> queue, term |-> term, action |-> action, line |-> line,
     flushes |-> flushes, failed |-> FALSE, status |-> "ok", n |-> 0]

\* Where control is after a step that ended with the given status
NextPc(status, continue) ==
    CASE status = "ok" -> continue
      [] status = "err" -> "failed"
      [] status = "panic" -> "panicked"
      [] status = "return" -> "returned"
      [] status = "exit" -> "exited"

\* Which primitive of a step fails (0: none).  On the terminal that is
\* followed the output primitives do not fail.
FailPoints == IF term.followed THEN {0} ELSE 0..MaxFailPoint

\* Console::new()
Init ==
    /\ line_buffer = <<>>
    /\ cursor_coord = 0
    /\ raw_mode = FALSE
    /\ queue = <<>>
    /\ term = NoTerm
    /\ pc = "idle"
    /\ event = NoEvent
    /\ action = "None"
    /\ line = <<>>
    /\ typed = <<>>
    /\ pure = FALSE
    /\ flushes = 0
    /\ io_failed = FALSE
    /\ reads = 0

\* The caller invokes Console::read (for the first time, or again after a
\* returned line or a propagated error): the two statements before the loop
read_begin ==
    /\ pc \in {"idle", "returned", "failed"}
    /\ reads < (IF term.followed THEN TermReads ELSE MaxReads)
    /\ reads' = reads + 1
    /\ \E failAt \in FailPoints :
         LET st == print_prompt(enable_raw_mode(Current, Env(failAt, 1, 1, 0)),
                                Env(failAt, 1, 1, 0))
         IN /\ raw_mode' = st.raw_mode
            /\ queue' = st.queue
            /\ pc' = NextPc(st.status, "loop_top")
            /\ pure' = (st.status = "ok" /\ line_buffer = <<>>)
            /\ io_failed' = st.failed
    /\ flushes' = 0
    /\ event' = NoEvent
    /\ action' = "None"
    /\ line' = <<>>
    /\ typed' = <<>>
    /\ UNCHANGED <<line_buffer, cursor_coord, term>>

\* execute!(self.stdout)? at the top of the loop; the previous iteration's
\* locals `event` and `action` are out of scope
read_flush ==
    /\ pc = "loop_top"
    /\ \E failAt \in FailPoints :
         LET st == execute([Current EXCEPT !.flushes = 0], Env(failAt, 1, 1, 0), <<>>)
         IN /\ queue' = st.queue
            /\ term' = st.term
            /\ flushes' = st.flushes
            /\ io_failed' = st.failed
            /\ pc' = NextPc(st.status, "blocked")
            /\ pure' = (pure /\ st.status = "ok")
            /\ typed' = IF pure /\ st.status = "ok" THEN typed ELSE <<>>
    /\ event' = NoEvent
    /\ action' = "None"
    /\ UNCHANGED <<line_buffer, cursor_coord, raw_mode, line, reads>>

\* read()? returns an error
read_event_err ==
    /\ pc = "blocked"
    /\ pc' = "failed"
    /\ io_failed' = TRUE
    /\ pure' = FALSE
    /\ typed' = <<>>
    /\ UNCHANGED <<line_buffer, cursor_coord, raw_mode, queue, term, event, action, line,
                   flushes, reads>>

IsInsert(ev) == ev.kind = "Key" /\ ev.code = "Char" /\ ev.modifiers \in {"NONE", "SHIFT"}

IsEnter(ev) == ev.kind = "Key" /\ ev.code = "Enter" /\ ev.modifiers = "NONE"

\* read() delivers ev and the rest of the loop iteration runs
Iterate(ev, env) ==
    /\ pc = "blocked"
    /\ LET st == loop_body(Current, ev, env)
           stillPure == /\ pure
                        /\ st.status \in {"ok", "panic", "return"}
                        /\ IsInsert(ev) \/ IsEnter(ev)
       IN /\ line_buffer' = st.line_buffer
          /\ cursor_coord' = st.cursor_coord
          /\ raw_mode' = st.raw_mode
          /\ queue' = st.queue
          /\ term' = st.term
          /\ flushes' = st.flushes
          /\ io_failed' = st.failed
          /\ action' = st.action
          /\ line' = st.line
          /\ pc' = NextPc(st.status, "loop_top")
          /\ pure' = stillPure
          /\ typed' = IF ~stillPure THEN <<>>
                      ELSE IF IsInsert(ev) THEN Append(typed, ev.ch)
                      ELSE typed
    /\ event' = ev
    /\ UNCHANGED reads

Widths == 1..MaxWidth

Heights == 1..MaxHeight

\* What terminal::size() and cursor::position() report to a handler that
\* moves the cursor.  On the terminal that is followed the position is the one
\* the step starts from (the commands a handler queues before it asks are a
\* save ... restore pair, which comes back to it); on the open one they are
\* any values.
MoveEnvs(failAt) ==
    IF term.followed
    THEN {Env(failAt, TermWidth, TermHeight, term.x)}
    ELSE UNION {{Env(failAt, x_size, 1, x_pos) : x_pos \in 0..(x_size - 1)} :
                    x_size \in Widths}

\* What terminal::size() reports to the Return arm
SizeEnvs(failAt) ==
    IF term.followed
    THEN {Env(failAt, TermWidth, TermHeight, term.x)}
    ELSE {Env(failAt, 1, y_size, 0) : y_size \in Heights}

key_insert ==
    \E m \in {"NONE", "SHIFT"}, ch \in Chars, failAt \in FailPoints :
        \E env \in MoveEnvs(failAt) :
            /\ Len(line_buffer) + len_utf8(ch) <= MaxBytes
            /\ Iterate(KeyEvent(m, "Char", ch), env)

key_backspace ==
    \E failAt \in FailPoints :
        \E env \in MoveEnvs(failAt) :
            /\ pc = "blocked"
            /\ Iterate(KeyEvent("NONE", "Backspace", ""), env)

key_left ==
    \E failAt \in FailPoints :
        \E env \in MoveEnvs(failAt) :
            /\ pc = "blocked"
            /\ Iterate(KeyEvent("NONE", "Left", ""), env)

key_right ==
    \E failAt \in FailPoints :
        \E env \in MoveEnvs(failAt) :
            /\ pc = "blocked"
            /\ Iterate(KeyEvent("NONE", "Right", ""), env)

key_enter ==
    \E failAt \in FailPoints :
        \E env \in SizeEnvs(failAt) :
            /\ pc = "blocked"
            /\ Iterate(KeyEvent("NONE", "Enter", ""), env)

key_ctrl_c ==
    \E failAt \in FailPoints :
        /\ pc = "blocked"
        /\ Iterate(KeyEvent("CONTROL", "Char", "c"), Env(failAt, 1, 1, 0))

key_ctrl_l ==
    \E failAt \in FailPoints :
        /\ pc = "blocked"
        /\ Iterate(KeyEvent("CONTROL", "Char", "l"), Env(failAt, 1, 1, 0))

\* Every event no arm of handle_event's match is written for
OtherEvents ==
    Events \ ({KeyEvent(m, "Char", ch) : m \in {"NONE", "SHIFT"}, ch \in Chars}
              \cup {KeyEvent("NONE", code, "") : code \in {"Backspace", "Left", "Right", "Enter"}}
              \cup {KeyEvent("CONTROL", "Char", "c"), KeyEvent("CONTROL", "Char", "l")})

other_event ==
    \E ev \in OtherEvents, failAt \in {0, 1} :
        /\ pc = "blocked"
        /\ Iterate(ev, Env(failAt, 1, 1, 0))

Next ==
    \/ read_begin
    \/ read_flush
    \/ read_event_err
    \/ key_insert
    \/ key_backspace
    \/ key_left
    \/ key_right
    \/ key_enter
    \/ key_ctrl_c
    \/ key_ctrl_l
    \/ other_event

Spec == Init /\ [][Next]_vars

\* Console::new() in front of the terminal that is followed
TermInit ==
    /\ line_buffer = <<>>
    /\ cursor_coord = 0
    /\ raw_mode = FALSE
    /\ queue = <<>>
    /\ term = InitTerm
    /\ pc = "idle"
    /\ event = NoEvent
    /\ action = "None"
    /\ line = <<>>
    /\ typed = <<>>
    /\ pure = FALSE
    /\ flushes = 0
    /\ io_failed = FALSE
    /\ reads = 0

TermSpec == TermInit /\ [][Next]_vars

TypeOK ==
    /\ cursor_coord \in 0..MaxBytes
    /\ Len(line_buffer) <= MaxBytes
    /\ raw_mode \in BOOLEAN
    /\ pc \in {"idle", "loop_top", "blocked", "returned", "failed", "exited", "panicked"}
    /\ action \in {"None", "Return", "Clear", "Exit", "Ignore"}
    /\ pure \in BOOLEAN
    /\ flushes \in 0..2
    /\ io_failed \in BOOLEAN
    /\ term.x \in 0..(TermWidth - 1)
    /\ term.y \in 0..(TermHeight - 1)
    /\ reads \in 0..MaxReads

----------------------------------------------------------------------------
\* Properties

EnterKey == KeyEvent("NONE", "Enter", "")

\* length(content) in characters
CharLen(s) == Len(chars(s))

\* c[0..k] + ch + c[k..] on a sequence of characters
InsertAt(c, k, ch) == SubSeq(c, 1, k) \o <<ch>> \o SubSeq(c, k + 1, Len(c))

\* c[0..k-1] + c[k..] on a sequence of characters
RemoveBefore(c, k) == SubSeq(c, 1, k - 1) \o SubSeq(c, k + 1, Len(c))

\* C1: after every event handle_event has handled, the cursor is an offset
\* into the buffer measured in characters: 0 <= cursor_coord <= length(line_buffer).
\* Stated for the first read of a Console, so that no earlier aborted read
\* is involved.
C1_CursorWithinChars ==
    (reads = 1 /\ pc = "loop_top") =>
        cursor_coord >= 0 /\ cursor_coord <= CharLen(line_buffer)

\* C2: whenever Console::read has stopped (returned Ok, returned Err, or
\* exited the process), raw mode is disabled.
C2_RawModeOffWhenStopped ==
    pc \in {"returned", "failed", "exited"} => ~raw_mode

\* C3: read returns Ok(line) only on an unmodified Enter with a non-empty
\* buffer; the line is that buffer, never empty, and the buffer is empty and
\* the cursor 0 right after; an Enter on an empty buffer yields no Return,
\* changes nothing, and the loop keeps reading.
C3_ReturnOnlyOnEnter ==
    [][/\ (pc' = "returned" /\ pc # "returned") =>
            /\ pc = "blocked"
            /\ event' = EnterKey
            /\ action' = "Return"
            /\ line_buffer # <<>>
            /\ line' = line_buffer
            /\ line' # <<>>
            /\ line_buffer' = <<>>
            /\ cursor_coord' = 0
       /\ (pc = "blocked" /\ event' = EnterKey /\ line_buffer = <<>>) =>
            /\ pc' = "loop_top"
            /\ action' = "Ignore"
            /\ UNCHANGED <<line_buffer, cursor_coord, raw_mode, queue, line>>
      ]_vars

\* C3's case: a line of two bytes has been returned on Enter
C3_Witness ==
    /\ pc = "returned"
    /\ event = EnterKey
    /\ Len(line) = 2
    /\ line_buffer = <<>>
    /\ cursor_coord = 0

\* C4: a read that starts with an empty buffer and is fed the characters of
\* s one at a time, then Enter, returns exactly s, with the buffer empty and
\* the cursor 0 afterwards.
C4_RoundTrip ==
    pure => /\ pc # "panicked"
            /\ pc = "returned" =>
                 /\ chars(line) = typed
                 /\ line_buffer = <<>>
                 /\ cursor_coord = 0

BackspaceKey == KeyEvent("NONE", "Backspace", "")

LeftKey == KeyEvent("NONE", "Left", "")

RightKey == KeyEvent("NONE", "Right", "")

CtrlL == KeyEvent("CONTROL", "Char", "l")

\* C5: a character typed with no modifier or Shift at cursor offset k of
\* content c (0 <= k <= length(c), in characters), handled without a terminal
\* error, leaves content c[0..k] + ch + c[k..] and cursor k + 1. Stated for
\* the first read of a Console.
C5_InsertAtCursor ==
    [][(/\ pc = "blocked"
        /\ reads = 1
        /\ IsInsert(event')
        /\ cursor_coord <= CharLen(line_buffer)
        /\ pc' # "failed") =>
            /\ pc' = "loop_top"
            /\ chars(line_buffer') = InsertAt(chars(line_buffer), cursor_coord, event'.ch)
            /\ cursor_coord' = cursor_coord + 1
      ]_vars

\* C6: with characters of more than one byte in play, no insert, Backspace,
\* Left or Right aborts the program (no insert, remove or slice at an offset
\* inside a character). Stated for the first read of a Console.
C6_NoAbortOnMultiByte == reads = 1 => pc # "panicked"

\* C7: an unmodified Backspace at cursor offset k of content c
\* (0 < k <= length(c), in characters), handled without a terminal error,
\* removes exactly the character at offset k-1: content c[0..k-1] + c[k..],
\* cursor k-1. Stated for the first read of a Console.
C7_BackspaceBeforeCursor ==
    [][(/\ pc = "blocked"
        /\ reads = 1
        /\ event' = BackspaceKey
        /\ cursor_coord > 0
        /\ cursor_coord <= CharLen(line_buffer)
        /\ pc' # "failed") =>
            /\ pc' = "loop_top"
            /\ chars(line_buffer') = RemoveBefore(chars(line_buffer), cursor_coord)
            /\ cursor_coord' = cursor_coord - 1
      ]_vars

\* C8: an unmodified Left with cursor > 0 decrements the cursor by exactly
\* one and an unmodified Right with cursor < length(content) increments it by
\* exactly one, the content unchanged in both cases (the event being handled
\* without a terminal error, which would abort the read).
C8_CursorMovement ==
    [][/\ (/\ pc = "blocked"
           /\ event' = LeftKey
           /\ cursor_coord > 0
           /\ pc' # "failed") =>
               /\ pc' = "loop_top"
               /\ cursor_coord' = cursor_coord - 1
               /\ line_buffer' = line_buffer
       /\ (/\ pc = "blocked"
           /\ event' = RightKey
           /\ cursor_coord < CharLen(line_buffer)
           /\ pc' # "failed") =>
               /\ pc' = "loop_top"
               /\ cursor_coord' = cursor_coord + 1
               /\ line_buffer' = line_buffer
      ]_vars

\* C8's case: a Left from cursor 1 has been handled, its move queued
C8_Witness ==
    /\ pc = "loop_top"
    /\ event = LeftKey
    /\ line_buffer # <<>>
    /\ cursor_coord = 0
    /\ queue # <<>>

\* C9: Backspace with cursor = 0, Left with cursor = 0 and Right with
\* cursor = length(content) leave the content and the cursor unchanged and
\* queue nothing. Stated for the first read of a Console.
C9_BoundaryNoOps ==
    [][(/\ pc = "blocked"
        /\ reads = 1
        /\ \/ event' \in {BackspaceKey, LeftKey} /\ cursor_coord = 0
           \/ event' = RightKey /\ cursor_coord = CharLen(line_buffer)) =>
            /\ pc' = "loop_top"
            /\ UNCHANGED <<line_buffer, cursor_coord, queue>>
      ]_vars

\* C10: Ctrl-L in any buffer state empties the buffer, zeroes the cursor and
\* leaves raw mode enabled; read does not return, and (no terminal error
\* aborting the read) exactly a move to the origin, a full clear and one
\* prompt print are queued and the loop goes back to its top.
C10_Clear ==
    [][(pc = "blocked" /\ event' = CtrlL) =>
            /\ line_buffer' = <<>>
            /\ cursor_coord' = 0
            /\ raw_mode /\ raw_mode'
            /\ pc' \in {"loop_top", "failed"}
            /\ pc' = "loop_top" =>
                 /\ action' = "Clear"
                 /\ queue' = queue \o <<MoveTo(0, 0), ClearAll, PrintText(generate_prompt)>>
      ]_vars

\* C10's case: a Ctrl-L has been handled; the buffer is reset, raw mode is
\* still enabled and the clear and the prompt are what is queued
C10_Witness ==
    /\ pc = "loop_top"
    /\ event = CtrlL
    /\ action = "Clear"
    /\ line_buffer = <<>>
    /\ cursor_coord = 0
    /\ raw_mode
    /\ queue = <<MoveTo(0, 0), ClearAll, PrintText(generate_prompt)>>

CtrlC == KeyEvent("CONTROL", "Char", "c")

\* C11: Ctrl-C, whatever the buffer holds and wherever the cursor is, produces
\* the Exit action; read returns no line; unless a terminal primitive fails
\* (read then returns that error) the process exits, and raw mode is off by
\* the time it does.
C11_Exit ==
    [][(pc = "blocked" /\ event' = CtrlC) =>
            /\ action' = "Exit"
            /\ pc' \in {"exited", "failed"}
            /\ line' = <<>>
            /\ pc' = "exited" <=> ~io_failed'
            /\ pc' = "exited" => ~raw_mode'
      ]_vars

\* The process has exited on Ctrl-C with text in the buffer and the cursor inside it
C11_Witness ==
    /\ pc = "exited"
    /\ event = CtrlC
    /\ ~raw_mode
    /\ Len(line_buffer) = 2
    /\ cursor_coord = 1

\* C12: raw mode is on whenever the loop is about to flush or is blocked on
\* the event read, in the first read and in later ones; a Clear or an ignored
\* event leaves it on; the only steps that turn it off are a Return and an
\* Exit (which may still end in an error once it is off).
C12_RawModeHeld ==
    [][ /\ pc' \in {"loop_top", "blocked"} => raw_mode'
        /\ (pc = "blocked" /\ action' \in {"Clear", "Ignore"}) => raw_mode'
        /\ (raw_mode /\ ~raw_mode') =>
               /\ pc = "blocked"
               /\ event' \in {EnterKey, CtrlC}
               /\ action' \in {"Return", "Exit"}
               /\ pc' \in {"returned", "exited", "failed"}
      ]_vars

\* A second read is back at the top of its loop after a Clear, raw mode on
C12_Witness ==
    /\ reads = 2
    /\ pc = "loop_top"
    /\ action = "Clear"
    /\ raw_mode

\* The terminal once everything queued has been flushed to it
Rendered == apply_cmds(term, queue)

\* The events that edit the line or move the cursor
EditKeys ==
    {KeyEvent(m, "Char", ch) : m \in {"NONE", "SHIFT"}, ch \in Chars}
    \cup {BackspaceKey, LeftKey, RightKey}

\* C13: after the render of an insert, Backspace, Left or Right, the physical
\* cursor is on the cell where offset cursor_coord falls when the prompt and
\* the buffer are laid out at the terminal's width: with the prompt ending at
\* column ox of row oy, column (ox + cursor_coord) mod W of row
\* oy + (ox + cursor_coord) div W.
C13_Lockstep ==
    (term.followed /\ pc = "loop_top" /\ event \in EditKeys) =>
        /\ Rendered.x = (Rendered.ox + cursor_coord) % TermWidth
        /\ Rendered.y = Rendered.oy + ((Rendered.ox + cursor_coord) \div TermWidth)

\* C14: on a terminal W columns wide, the cursor move of a Right key goes from
\* column W-1 to column 0 of the next row and from any other column one column
\* to the right on the same row; the cursor move of a Left key goes from
\* column 0 to column W-1 of the previous row and from any other column one
\* column to the left on the same row.  Stated for a line of single-byte
\* characters.
C14_Wrap ==
    [][(/\ term.followed
        /\ pc = "blocked" /\ pc' = "loop_top"
        /\ event' \in {LeftKey, RightKey}
        /\ CharLen(line_buffer) = Len(line_buffer)
        /\ cursor_coord' # cursor_coord) =>
            /\ event' = RightKey =>
                 IF term.x = TermWidth - 1
                 THEN Rendered'.x = 0 /\ Rendered'.y = term.y + 1
                 ELSE Rendered'.x = term.x + 1 /\ Rendered'.y = term.y
            /\ event' = LeftKey =>
                 IF term.x = 0
                 THEN Rendered'.x = TermWidth - 1 /\ Rendered'.y = term.y - 1
                 ELSE Rendered'.x = term.x - 1 /\ Rendered'.y = term.y
      ]_vars

\* An iteration of the loop has just ended
IterationDone == event # NoEvent /\ pc \in {"loop_top", "returned", "exited"}

ShownAt(t, i) ==
    LET col == (t.ox + i) % TermWidth
        row == t.oy + ((t.ox + i) \div TermWidth)
    IN IF row \in 0..(TermHeight - 1) THEN t.cells[row + 1][col + 1] ELSE "off"

\* C16: after the render of an insert or a Backspace the cells that follow
\* the prompt show the characters of the buffer in order, and the cell after
\* the last of them (when the screen has one) is blank.  Stated for a line of
\* single-byte characters.
C16_ScreenTracksBuffer ==
    (/\ term.followed
     /\ pc = "loop_top"
     /\ IsInsert(event) \/ event = BackspaceKey
     /\ CharLen(line_buffer) = Len(line_buffer)) =>
        /\ \A i \in 1..Len(line_buffer) : ShownAt(Rendered, i - 1) = line_buffer[i][1]
        /\ ShownAt(Rendered, Len(line_buffer)) \in {Blank, "off"}

\* C17: an event outside the key-mapping table (not a key event, or a key
\* and modifier combination with no arm) yields Ignore: buffer, cursor, raw
\* mode and the queue of commands are unchanged, no primitive is called, and
\* the loop goes back to its top.
C17_Ignore ==
    [][(pc = "blocked" /\ event' \in OtherEvents) =>
            /\ action' = "Ignore"
            /\ UNCHANGED <<line_buffer, cursor_coord, raw_mode, queue, flushes>>
            /\ ~io_failed'
            /\ pc' = "loop_top"
      ]_vars

\* Ctrl+Backspace has been ignored with text in the buffer
C17_Witness ==
    /\ pc = "loop_top"
    /\ event = KeyEvent("CONTROL", "Backspace", "")
    /\ action = "Ignore"
    /\ line_buffer # <<>>
    /\ cursor_coord = Len(line_buffer)
    /\ raw_mode

\* C18: whenever Console::read is called (the first time, after a returned
\* line, or after a propagated error) the buffer is empty and the cursor is 0.
C18_EmptyAtStart ==
    [][(pc \in {"idle", "returned", "failed"} /\ reads' = reads + 1) =>
            (line_buffer = <<>> /\ cursor_coord = 0)
      ]_vars

\* C19: once a terminal primitive has failed in a call of read, that call has
\* returned the error: it returns no line, and the only step that can follow
\* is a new call of read.
C19_AbortOnError ==
    [][ /\ io_failed' => (pc' = "failed" /\ line' = <<>>)
        /\ pc' = "returned" => ~io_failed'
        /\ io_failed => reads' = reads + 1
      ]_vars

\* A primitive of the Return arm has failed: read has returned the error and
\* no line
C19_Witness ==
    /\ io_failed
    /\ pc = "failed"
    /\ event = EnterKey
    /\ action = "Return"
    /\ line = <<>>

\* What the next loop iteration makes of the event ev when no primitive fails
Then(st, ev) == loop_body(st, ev, Env(0, 1, 1, 0))

\* C20: from any content c and cursor k with 0 <= k <= length(c), inserting a
\* single-byte character and then pressing Backspace gives back c and k; and
\* from a cursor > 0, Left and then Right give back the cursor and leave the
\* content alone.  Stated for the first read of a Console, terminal errors
\* aside.
C20_InverseKeys ==
    [][(/\ reads = 1
        /\ pc = "blocked"
        /\ cursor_coord <= CharLen(line_buffer)
        /\ ~io_failed') =>
            /\ (IsInsert(event') /\ len_utf8(event'.ch) = 1) =>
                  /\ pc' = "loop_top"
                  /\ Then(Current', BackspaceKey).status = "ok"
                  /\ Then(Current', BackspaceKey).line_buffer = line_buffer
                  /\ Then(Current', BackspaceKey).cursor_coord = cursor_coord
            /\ (event' = LeftKey /\ cursor_coord > 0) =>
                  /\ pc' = "loop_top"
                  /\ Then(Current', RightKey).status = "ok"
                  /\ Then(Current', RightKey).line_buffer = line_buffer
                  /\ Then(Current', RightKey).cursor_coord = cursor_coord
      ]_vars

============================================================================
